---- MODULE Spec2Model ----
(***************************************************************************)
(* Model of src/udev/udevadm-hwdb.c: the compiler of the udev hardware     *)
(* database.  A Patricia trie (struct trie, struct trie_node) indexed by   *)
(* match patterns holds sorted key/value arrays whose strings live in a    *)
(* string pool (struct strbuf); trie_store() lays the trie out in a file,  *)
(* import_file() parses the text records and adm_hwdb() drives a build.    *)
(*                                                                         *)
(* Strings are sequences of bytes 0..255, C strings end at the first 0.    *)
(* Pool offsets and array indices of the C code are 0-based; sequences of  *)
(* the model are 1-based, so buf[off + 1] is the byte at offset off.       *)
(***************************************************************************)
EXTENDS Integers, Sequences, FiniteSets, TLC

VARIABLES
    heap,        \* the allocated struct trie_node objects, by address 1..Len(heap)
    trie,        \* struct trie: root, strings (the pool's buffer) and the counters
    charSigned,  \* whether plain char is signed in this build (implementation-defined)
    pc,          \* position of the build in adm_hwdb()
    hist,        \* history: (pattern, key) -> last value and number of successful inserts
    failed,      \* history: some trie_insert() returned an error
    left,        \* the inputs (trie_insert() calls, lines) the build may still take
    faults,      \* history: number of allocations and system calls made to fail
    tmp,         \* the temporary file of trie_store(): "none", "removed", "renamed"
    final,       \* the file at the final path: "old" or the image renamed over it
    written,     \* what trie_store() wrote to the temporary and its size pass (<<>> before)
    ret,         \* the value trie_store() returned ("none" before)
    rc,          \* the exit status adm_hwdb() is about to return
    storeFault,  \* history: the call trie_store() saw fail ("none", "open", "alloc", "write", "rename")
    files,       \* the input files adm_hwdb() may still open
    match,       \* char match[LINE_MAX] of import_file(), as a C string
    line,        \* history: the line fgets() returned last (<<>> before)
    call,        \* history: the arguments of the trie_insert() call made for that line (<<>>: none)
    rec,         \* history: the current record as the input format describes it
    ref          \* history: the trie of a build that made the same trie_insert() calls
                 \* with no failed allocation and the search key reading as no key

trieVars == <<heap, trie>>
storeVars == <<tmp, final, written, ret, rc, storeFault>>
parseVars == <<files, match, line, call, rec>>
vars == <<heap, trie, charSigned, pc, hist, failed, left, faults,
          tmp, final, written, ret, rc, storeFault, files, match, line, call, rec, ref>>

-----------------------------------------------------------------------------
(* Bounds of the model and the inputs drawn by the actions.                *)

MaxLen == 2          \* longest match pattern handed to trie_insert()
MaxInserts == 3      \* trie_insert() calls per build
MaxStoreInserts == 2 \* trie_insert() calls of a build that goes on to trie_store()
MaxFaults == 1       \* allocations and system calls that fail per build
MaxFailAt == 10      \* the latest allocation of one call that is made to fail
MaxLines == 4        \* lines read per build
MaxFiles == 2        \* input files per build
MaxSplitInserts == 3 \* trie_insert() calls of a build over the longer patterns

ENOMEM == 12
EIO == 5             \* the errno of a failed write
EACCES == 13         \* the errno of a failed fopen_temporary()

\* sizeof the on-disk structures of udev-hwdb.h
HeaderSize == 80
NodeSize == 24
ChildEntrySize == 16
ValueEntrySize == 16

Alphabet == {97, 200}                 \* 'a' and a byte above 0x7f
KeyValues == {<<<<75>>, <<49>>>>, <<<<75>>, <<50>>>>, <<<<76>>, <<49>>>>}  \* K=1, K=2, L=1
NoKey == <<63>>                       \* "?": bytes that equal no key

\* the lines fgets() returns: "a\n", "\xc8\n", " K=1\n", " K=\n", " K==\n", " K\n",
\* "\n", "#\n", and as the last line of a file, without a newline, " L=2" and "a"
Lines == {<<97, 10>>, <<200, 10>>, <<32, 75, 61, 49, 10>>, <<32, 75, 61, 10>>,
          <<32, 75, 61, 61, 10>>, <<32, 75, 10>>, <<10>>, <<35, 10>>,
          <<32, 76, 61, 50>>, <<97>>}

RECURSIVE StringsUpTo(_)
StringsUpTo(n) ==
    IF n = 0 THEN {<<>>}
    ELSE LET shorter == StringsUpTo(n - 1)
         IN  shorter \cup {Append(s, ch) : s \in {t \in shorter : Len(t) = n - 1}, ch \in Alphabet}

Patterns == StringsUpTo(MaxLen)

\* patterns that run through one another: "a", "aa", "aaa", "a\xc8", "aa\xc8"
SplitPatterns == {<<97>>, <<97, 97>>, <<97, 97, 97>>, <<97, 200>>, <<97, 97, 200>>}

-----------------------------------------------------------------------------
(* C strings and the string pool.                                          *)

\* the byte at 0-based index j of the C string s (its terminator past the end)
Byte(s, j) == IF j < Len(s) THEN s[j + 1] ELSE 0

\* the value of a byte read through a plain char
AsChar(byte, signed) == IF signed /\ byte >= 128 THEN byte - 256 ELSE byte

\* the C string that starts at offset off of the buffer (empty for an offset
\* that is none of the buffer's)
RECURSIVE StrAt(_, _)
StrAt(buf, off) ==
    IF off < 0 \/ off >= Len(buf) THEN <<>>
    ELSE IF buf[off + 1] = 0 THEN <<>>
    ELSE <<buf[off + 1]>> \o StrAt(buf, off + 1)

\* strcmp(): <0, 0, >0 by the first differing byte, compared as unsigned char
RECURSIVE strcmp(_, _)
strcmp(s, t) ==
    IF s = <<>> /\ t = <<>> THEN 0
    ELSE IF Byte(s, 0) # Byte(t, 0) THEN Byte(s, 0) - Byte(t, 0)
    ELSE strcmp(Tail(s), Tail(t))

SetMin(S) == CHOOSE x \in S : \A y \in S : x <= y

\* the offsets of the pool at which the string s is stored, also as the
\* tail of a longer string
StoredAt(buf, s) == {o \in 0..(Len(buf) - 1) : StrAt(buf, o) = s}

\* strbuf_add_string(): [buf, off], off the offset of a NUL-terminated copy
\* of s: an existing one when there is one, else one appended to the pool
strbuf_add_string(buf, s) ==
    IF s = <<>> THEN [buf |-> buf, off |-> 0]
    ELSE IF StoredAt(buf, s) # {} THEN [buf |-> buf, off |-> SetMin(StoredAt(buf, s))]
    ELSE [buf |-> buf \o s \o <<0>>, off |-> Len(buf)]

-----------------------------------------------------------------------------
(* The in-memory trie.  The working state st of one trie_insert() call is  *)
(* [heap, strings, nodes_count, children_count, values_count, allocs]:     *)
(* allocs counts the allocations the call has made, and the call's         *)
(* failAt-th allocation fails (failAt = 0: none does).  A node that was    *)
(* allocated but never linked into the trie is leaked and is not kept in   *)
(* the heap.  Where a C function keeps an intermediate result in a local   *)
(* variable, the model passes it on to an operator for the function's      *)
(* remaining lines.                                                        *)

NewNode == [prefix_off |-> 0, children |-> <<>>, children_count |-> 0,
            values |-> <<>>, values_count |-> 0]

\* the next allocation of the call fails
AllocFails(st, failAt) == st.allocs + 1 = failAt

Allocated(st) == [st EXCEPT !.allocs = @ + 1]

\* trie_children_cmp()
trie_children_cmp(n1, n2) == n1.c - n2.c

\* the children array of node_add_child() without its qsort()
AppendedChild(arr, e) == Append(arr, e)

\* qsort() by trie_children_cmp of the array arr with e appended: arr is
\* sorted, so e moves down to its place
RECURSIVE qsort_children(_, _)
qsort_children(arr, e) ==
    IF arr = <<>> THEN <<e>>
    ELSE IF trie_children_cmp(arr[Len(arr)], e) <= 0 THEN Append(arr, e)
    ELSE Append(qsort_children(SubSeq(arr, 1, Len(arr) - 1), e), arr[Len(arr)])

\* node_add_child(), the array after realloc(), the new entry and qsort()
ChildrenWith(n, c, child) ==
    qsort_children(SubSeq(n.children, 1, n.children_count), [c |-> c, child |-> child])

\* node_add_child() with a children_count one bit wide
node_add_child_u1(st, node, node_child, c, failAt) ==
    IF AllocFails(st, failAt) THEN [st |-> Allocated(st), err |-> -ENOMEM]
    ELSE [st |-> [Allocated(st) EXCEPT
                    !.heap = Append([st.heap EXCEPT
                                       ![node].children =
                                           ChildrenWith(st.heap[node], c, Len(st.heap) + 1),
                                       ![node].children_count = (@ + 1) % 2],
                                    node_child),
                    !.children_count = @ + 1,
                    !.nodes_count = @ + 1],
          err |-> 0]

\* node_add_child(): [st, err]; the child object becomes heap[Len(heap) + 1]
node_add_child(st, node, node_child, c, failAt) ==
    IF AllocFails(st, failAt) THEN [st |-> Allocated(st), err |-> -ENOMEM]
    ELSE [st |-> [Allocated(st) EXCEPT
                    !.heap = Append([st.heap EXCEPT
                                       ![node].children =
                                           ChildrenWith(st.heap[node], c, Len(st.heap) + 1),
                                       ![node].children_count = (@ + 1) % 256],
                                    node_child),
                    !.children_count = @ + 1,
                    !.nodes_count = @ + 1],
          err |-> 0]

\* bsearch() by trie_children_cmp in arr[l..u-1] (0-based): the index found
\* (1-based), 0 when none
RECURSIVE bsearch_children(_, _, _, _)
bsearch_children(arr, l, u, search) ==
    IF l >= u THEN 0
    ELSE IF trie_children_cmp(search, arr[((l + u) \div 2) + 1]) < 0
         THEN bsearch_children(arr, l, (l + u) \div 2, search)
    ELSE IF trie_children_cmp(search, arr[((l + u) \div 2) + 1]) > 0
         THEN bsearch_children(arr, ((l + u) \div 2) + 1, u, search)
    ELSE ((l + u) \div 2) + 1

\* the child an index of bsearch_children() stands for, 0 for NULL
ChildAt(n, idx) == IF idx = 0 THEN 0 ELSE n.children[idx].child

\* node_lookup(): the child's address, 0 for NULL
node_lookup(n, c) == ChildAt(n, bsearch_children(n.children, 0, n.children_count, [c |-> c]))

\* trie_values_cmp(), on the key strings its two arguments point at
trie_values_cmp(key1, key2) == strcmp(key1, key2)

\* strbuf_add_string() with the allocation it makes: [st, off], off =
\* -ENOMEM when the pool had to grow and that allocation failed
CheckedAdd(st, r, failAt) ==
    IF r.buf = st.strings THEN [st |-> st, off |-> r.off]
    ELSE IF AllocFails(st, failAt) THEN [st |-> Allocated(st), off |-> -ENOMEM]
    ELSE [st |-> [Allocated(st) EXCEPT !.strings = r.buf], off |-> r.off]

strbuf_add_checked(st, s, failAt) ==
    CheckedAdd(st, strbuf_add_string(st.strings, s), failAt)

\* the key string trie_values_cmp() reads through key_off.  An offset that
\* took strbuf_add_string()'s negative result is, as size_t, 2^64 + off (it
\* is kept as off here, so that sums with it wrap as uint64_t sums do) and
\* points outside the pool: what is read there is the bytes `garbage`.
ReadKey(buf, off, garbage) ==
    IF off >= 0 /\ off < Len(buf) THEN StrAt(buf, off) ELSE garbage

\* qsort_r() by trie_values_cmp of the array arr with e appended
RECURSIVE qsort_r_values(_, _, _, _)
qsort_r_values(buf, arr, e, garbage) ==
    IF arr = <<>> THEN <<e>>
    ELSE IF trie_values_cmp(ReadKey(buf, arr[Len(arr)].key_off, garbage),
                            ReadKey(buf, e.key_off, garbage)) <= 0
         THEN Append(arr, e)
    ELSE Append(qsort_r_values(buf, SubSeq(arr, 1, Len(arr) - 1), e, garbage),
                arr[Len(arr)])

\* xbsearch_r() by trie_values_cmp in arr[l..u-1] for the key string
\* searchKey: the index found (1-based), 0 when none
RECURSIVE xbsearch_r(_, _, _, _, _)
xbsearch_r(buf, arr, l, u, searchKey) ==
    IF l >= u THEN 0
    ELSE IF trie_values_cmp(searchKey,
                            ReadKey(buf, arr[((l + u) \div 2) + 1].key_off, searchKey)) < 0
         THEN xbsearch_r(buf, arr, l, (l + u) \div 2, searchKey)
    ELSE IF trie_values_cmp(searchKey,
                            ReadKey(buf, arr[((l + u) \div 2) + 1].key_off, searchKey)) > 0
         THEN xbsearch_r(buf, arr, ((l + u) \div 2) + 1, u, searchKey)
    ELSE ((l + u) \div 2) + 1

\* trie_node_add_value() from the search's result val on: an entry found is
\* overwritten, else the array is extended and sorted.  k and v are the
\* offsets strbuf_add_string() returned for the key and the value, stored
\* unchecked.
AddValueEntry(st, node, k, v, val, failAt, garbage) ==
    IF val # 0
    THEN [st |-> [st EXCEPT !.heap[node].values[val].value_off = v], err |-> 0]
    ELSE IF AllocFails(st, failAt)
    THEN [st |-> Allocated(st), err |-> -ENOMEM]
    ELSE [st |-> [Allocated(st) EXCEPT
                    !.values_count = @ + 1,
                    !.heap[node].values =
                        qsort_r_values(st.strings, @, [key_off |-> k, value_off |-> v],
                                       garbage),
                    !.heap[node].values_count = @ + 1],
          err |-> 0]

\* trie_node_add_value(), the search for an earlier entry of the key.  Only
\* search.value_off is set before it, so the key string the comparator reads
\* through search.key_off is whatever the stack held there: the bytes
\* `garbage`.
SearchValue(st, node, k, v, failAt, garbage) ==
    AddValueEntry(st, node, k, v,
                  xbsearch_r(st.strings, st.heap[node].values, 0,
                             st.heap[node].values_count, garbage),
                  failAt, garbage)

\* trie_node_add_value(), the value interned after the key (k its result)
InternValue(v, node, k, failAt, garbage) ==
    SearchValue(v.st, node, k, v.off, failAt, garbage)

\* trie_node_add_value(), the key interned (k the result)
InternKey(k, node, value, failAt, garbage) ==
    InternValue(strbuf_add_checked(k.st, value, failAt), node, k.off, failAt, garbage)

\* trie_node_add_value(): [st, err]
trie_node_add_value(st, node, key, value, failAt, garbage) ==
    InternKey(strbuf_add_checked(st, key, failAt), node, value, failAt, garbage)

\* a prefix scan that stops at the first byte of every prefix
MismatchPosFirst(P, search, i, p, signed) == IF p >= Len(P) THEN p ELSE 0

\* the prefix scan of trie_insert(): the first p with P[p] # search[i + p],
\* Len(P) when the whole prefix matches.  P[p] is read as uint8_t, search[i + p]
\* as plain char.
RECURSIVE MismatchPos(_, _, _, _, _)
MismatchPos(P, search, i, p, signed) ==
    IF p >= Len(P) THEN p
    ELSE IF Byte(P, p) = AsChar(Byte(search, i + p), signed)
         THEN MismatchPos(P, search, i, p + 1, signed)
    ELSE p

\* "split node" that leaves the node's values where they are
SplitLinkKeepingValues(a, node, child, c, failAt) ==
    IF a.off < 0 THEN [st |-> a.st, err |-> a.off]
    ELSE node_add_child([a.st EXCEPT !.heap[node].prefix_off = a.off,
                                     !.heap[node].children = <<>>,
                                     !.heap[node].children_count = 0],
                        node, child, c, failAt)

\* trie_insert(), "split node" from the interned head a of the prefix on:
\* the node is emptied and gets the new child, keyed by c
SplitLink(a, node, child, c, failAt) ==
    IF a.off < 0 THEN [st |-> a.st, err |-> a.off]
    ELSE node_add_child([a.st EXCEPT !.heap[node] = [NewNode EXCEPT !.prefix_off = a.off]],
                        node, child, c, failAt)

\* trie_insert(), "split node": [st, err].  The node keeps the head P[0..p) of
\* its prefix P; a new child, keyed by P[p], takes the tail and the arrays.
\* Allocations: calloc(), strndup(), strbuf_add_string(), node_add_child().
SplitNode(st, node, P, p, failAt) ==
    IF AllocFails(st, failAt) THEN [st |-> Allocated(st), err |-> -ENOMEM]
    ELSE IF AllocFails(Allocated(st), failAt)
    THEN [st |-> Allocated(Allocated(st)), err |-> -ENOMEM]
    ELSE SplitLink(strbuf_add_checked(Allocated(Allocated(st)), SubSeq(P, 1, p), failAt),
                   node,
                   [st.heap[node] EXCEPT !.prefix_off = @ + p + 1],
                   Byte(P, p), failAt)

\* trie_insert(), "new child", the result: the new leaf is the last node
NewChildDone(r) ==
    [st |-> r.st, err |-> r.err, node |-> IF r.err # 0 THEN 0 ELSE Len(r.st.heap)]

\* trie_insert(), "new child" from the interned rest a of the pattern on
NewChildLink(a, node, c, failAt) ==
    IF a.off < 0 THEN [st |-> a.st, err |-> a.off, node |-> 0]
    ELSE NewChildDone(node_add_child(a.st, node, [NewNode EXCEPT !.prefix_off = a.off],
                                     c, failAt))

\* trie_insert(), "new child": [st, err, node], node the new leaf
NewChild(st, node, c, rest, failAt) ==
    IF AllocFails(st, failAt) THEN [st |-> Allocated(st), err |-> -ENOMEM, node |-> 0]
    ELSE NewChildLink(strbuf_add_checked(Allocated(st), rest, failAt), node, c, failAt)

\* the for (;;) loop of trie_insert() up to the call of trie_node_add_value():
\* [st, err, node], node the one the pattern ends at
RECURSIVE FindNode(_, _, _, _, _, _)

\* one round of the loop after the prefix scan (sp its result, j = i + p): the
\* pattern ends here, or goes on in a child that exists or is made
Descend(sp, node, search, j, signed, failAt) ==
    IF sp.err # 0 THEN [st |-> sp.st, err |-> sp.err, node |-> 0]
    ELSE IF Byte(search, j) = 0 THEN [st |-> sp.st, err |-> 0, node |-> node]
    ELSE IF node_lookup(sp.st.heap[node], Byte(search, j)) = 0
    THEN NewChild(sp.st, node, Byte(search, j), SubSeq(search, j + 2, Len(search)), failAt)
    ELSE FindNode(sp.st, node_lookup(sp.st.heap[node], Byte(search, j)),
                  search, j + 1, signed, failAt)

\* one round of the loop from the mismatch position p of the prefix P on
ScanPrefix(st, node, search, i, P, p, signed, failAt) ==
    Descend(IF p < Len(P) THEN SplitNode(st, node, P, p, failAt) ELSE [st |-> st, err |-> 0],
            node, search, i + p, signed, failAt)

\* one round of the loop with the node's prefix P
MatchPrefix(st, node, search, i, P, signed, failAt) ==
    ScanPrefix(st, node, search, i, P, MismatchPos(P, search, i, 0, signed), signed, failAt)

FindNode(st, node, search, i, signed, failAt) ==
    MatchPrefix(st, node, search, i, StrAt(st.strings, st.heap[node].prefix_off),
                signed, failAt)

\* trie_insert() from the node w the loop ended at on
InsertValue(w, key, value, failAt, garbage) ==
    IF w.err # 0 THEN [st |-> w.st, err |-> w.err]
    ELSE trie_node_add_value(w.st, w.node, key, value, failAt, garbage)

\* trie_insert(): [st, err]
trie_insert(st, node, search, key, value, signed, failAt, garbage) ==
    InsertValue(FindNode(st, node, search, 0, signed, failAt), key, value, failAt, garbage)

-----------------------------------------------------------------------------
(* Reading the trie back: the pattern each node's path from the root       *)
(* spells and the key/value strings it holds.                              *)

\* {[node, pattern]}: the nodes below and including `node`, whose path so
\* far (edges and prefixes of its ancestors, and its own edge) spells `path`
RECURSIVE Walk(_, _, _, _)
Walk(h, buf, node, path) ==
    {[node |-> node, pattern |-> path \o StrAt(buf, h[node].prefix_off)]} \cup
    UNION {Walk(h, buf, h[node].children[x].child,
                Append(path \o StrAt(buf, h[node].prefix_off), h[node].children[x].c))
           : x \in 1..h[node].children_count}

Spelled == Walk(heap, trie.strings, trie.root, <<>>)

KeyOf(e) == StrAt(trie.strings, e.key_off)
ValueOf(e) == StrAt(trie.strings, e.value_off)

\* the nodes whose path from the root spells the pattern
NodesSpelling(pattern) == {e.node : e \in {x \in Spelled : x.pattern = pattern}}

KeysAt(node) == {KeyOf(heap[node].values[x]) : x \in 1..heap[node].values_count}

\* the value entries (indices) of a node whose key is k
EntriesFor(node, k) ==
    {x \in 1..heap[node].values_count : KeyOf(heap[node].values[x]) = k}

-----------------------------------------------------------------------------
(* The serializer.  The file is the sequence of records written, each with *)
(* the offset it was written at; the write state wf of trie_store_nodes()  *)
(* is [pos, recs, nodes_count, children_count, values_count, allocs], pos  *)
(* the file position.  The header's signature and tool_version are         *)
(* constants and left out.                                                 *)

\* trie_store_nodes_size(): strings_off after the subtree of node is added
RECURSIVE trie_store_nodes_size(_, _, _)
RECURSIVE SizeOfChildren(_, _, _, _)

\* trie_store_nodes_size() that leaves the value entries out of the sum
trie_store_nodes_size_novalues(h, strings_off, node) ==
    SizeOfChildren(h, strings_off, node, 1) + NodeSize
        + h[node].children_count * ChildEntrySize

\* the first loop of trie_store_nodes_size(), from child x on
SizeOfChildren(h, strings_off, node, x) ==
    IF x > h[node].children_count THEN strings_off
    ELSE SizeOfChildren(h, trie_store_nodes_size(h, strings_off, h[node].children[x].child),
                        node, x + 1)

trie_store_nodes_size(h, strings_off, node) ==
    SizeOfChildren(h, strings_off, node, 1) + NodeSize
        + h[node].children_count * ChildEntrySize
        + h[node].values_count * ValueEntrySize

\* trie_store_nodes(), "append values array": one trie_value_entry_f each
RECURSIVE WriteValues(_, _, _, _)
WriteValues(wf, values, x, strings_off) ==
    IF x > Len(values) THEN wf
    ELSE WriteValues([wf EXCEPT
                        !.recs = Append(@, [off |-> wf.pos, kind |-> "value",
                                            key_off |-> strings_off + values[x].key_off,
                                            value_off |-> strings_off + values[x].value_off]),
                        !.pos = @ + ValueEntrySize,
                        !.values_count = @ + 1],
                     values, x + 1, strings_off)

\* trie_store_nodes(), "append children array": one fwrite() of the entries
WriteChildren(wf, children) ==
    [wf EXCEPT !.recs = @ \o [x \in 1..Len(children) |->
                                [off |-> wf.pos + (x - 1) * ChildEntrySize, kind |-> "child",
                                 c |-> children[x].c, child_off |-> children[x].child_off]],
               !.pos = @ + Len(children) * ChildEntrySize,
               !.children_count = @ + Len(children)]

\* the trie_node_f of n with the pool's offset for prefix_off
WriteNodeRecordNoBase(wf, n, strings_off) ==
    [wf EXCEPT !.recs = Append(@, [off |-> wf.pos, kind |-> "node",
                                   prefix_off |-> n.prefix_off,
                                   children_count |-> n.children_count,
                                   values_count |-> n.values_count]),
               !.pos = @ + NodeSize,
               !.nodes_count = @ + 1]

\* trie_store_nodes(), "write node": the trie_node_f of n
WriteNodeRecord(wf, n, strings_off) ==
    [wf EXCEPT !.recs = Append(@, [off |-> wf.pos, kind |-> "node",
                                   prefix_off |-> strings_off + n.prefix_off,
                                   children_count |-> n.children_count,
                                   values_count |-> n.values_count]),
               !.pos = @ + NodeSize,
               !.nodes_count = @ + 1]

\* trie_store_nodes() that returns the position after the node's records
WriteNodeEndOffset(h, sub, node, strings_off) ==
    IF sub.off < 0 THEN [wf |-> sub.wf, off |-> sub.off]
    ELSE [wf |-> WriteValues(WriteChildren(WriteNodeRecord(sub.wf, h[node], strings_off),
                                           sub.children),
                             SubSeq(h[node].values, 1, h[node].values_count), 1, strings_off),
          off |-> sub.wf.pos + NodeSize]

\* trie_store_nodes() after the recursion (sub its result): the node's
\* record, children array and values array, at the position ftello() gives
WriteNode(h, sub, node, strings_off) ==
    IF sub.off < 0 THEN [wf |-> sub.wf, off |-> sub.off]
    ELSE [wf |-> WriteValues(WriteChildren(WriteNodeRecord(sub.wf, h[node], strings_off),
                                           sub.children),
                             SubSeq(h[node].values, 1, h[node].values_count), 1, strings_off),
          off |-> sub.wf.pos]

\* trie_store_nodes(): [wf, off], off the offset of the node's record or a
\* negative error; the storeFailAt-th children array fails to allocate
RECURSIVE trie_store_nodes(_, _, _, _, _)
RECURSIVE StoreChildren(_, _, _, _, _, _, _)

\* the "post-order recursion" loop after child x is written (r its result)
StoreNextChild(h, r, node, x, children, strings_off, storeFailAt) ==
    IF r.off < 0 THEN [wf |-> r.wf, off |-> r.off, children |-> children]
    ELSE StoreChildren(h, r.wf, node, x + 1,
                       Append(children, [c |-> h[node].children[x].c, child_off |-> r.off]),
                       strings_off, storeFailAt)

\* the "post-order recursion" loop from child x on
StoreChildren(h, wf, node, x, children, strings_off, storeFailAt) ==
    IF x > h[node].children_count THEN [wf |-> wf, off |-> 0, children |-> children]
    ELSE StoreNextChild(h, trie_store_nodes(h, wf, h[node].children[x].child,
                                            strings_off, storeFailAt),
                        node, x, children, strings_off, storeFailAt)

trie_store_nodes(h, wf, node, strings_off, storeFailAt) ==
    IF h[node].children_count # 0 /\ AllocFails(wf, storeFailAt)
    THEN [wf |-> Allocated(wf), off |-> -ENOMEM]
    ELSE WriteNode(h,
                   StoreChildren(h, IF h[node].children_count # 0 THEN Allocated(wf) ELSE wf,
                                 node, 1, <<>>, strings_off, storeFailAt),
                   node, strings_off)

\* the file after the node pass w with file_size taken before the pool is
\* appended
WriteFileSizeBeforePool(t, strings_off, w) ==
    [header |-> [file_size |-> w.wf.pos,
                 header_size |-> HeaderSize,
                 node_size |-> NodeSize,
                 child_entry_size |-> ChildEntrySize,
                 value_entry_size |-> ValueEntrySize,
                 nodes_root_off |-> w.off,
                 nodes_len |-> w.wf.pos - HeaderSize,
                 strings_len |-> Len(t.strings)],
     recs |-> w.wf.recs,
     strings_pos |-> w.wf.pos,
     strings |-> t.strings,
     strings_off |-> strings_off,
     allocs |-> w.wf.allocs]

\* trie_store(), the file after the node pass w: the pool is appended where
\* the nodes end and the header is filled in
WriteFile(t, strings_off, w) ==
    [header |-> [file_size |-> w.wf.pos + Len(t.strings),
                 header_size |-> HeaderSize,
                 node_size |-> NodeSize,
                 child_entry_size |-> ChildEntrySize,
                 value_entry_size |-> ValueEntrySize,
                 nodes_root_off |-> w.off,
                 nodes_len |-> w.wf.pos - HeaderSize,
                 strings_len |-> Len(t.strings)],
     recs |-> w.wf.recs,
     strings_pos |-> w.wf.pos,
     strings |-> t.strings,
     strings_off |-> strings_off,
     allocs |-> w.wf.allocs]

\* trie_store() from ferror() on: [ret, tmp, final, written]
FinishStore(file, writeErr, renameFail) ==
    IF writeErr
    THEN [ret |-> -EIO, tmp |-> "removed", final |-> "old", written |-> file]
    ELSE IF renameFail
    THEN [ret |-> 0, tmp |-> "removed", final |-> "old", written |-> file]
    ELSE [ret |-> 0, tmp |-> "renamed", final |-> file, written |-> file]

\* trie_store() with the strings base of its size pass
StoreFrom(h, t, strings_off, storeFailAt, writeErr, renameFail) ==
    FinishStore(WriteFile(t, strings_off,
                          trie_store_nodes(h, [pos |-> HeaderSize, recs |-> <<>>,
                                               nodes_count |-> 0, children_count |-> 0,
                                               values_count |-> 0, allocs |-> 0],
                                           t.root, strings_off, storeFailAt)),
                writeErr, renameFail)

\* trie_store(): [ret, tmp, final, written].  openFail: fopen_temporary()
\* fails; writeErr: ferror() reports a failed write; renameFail: rename() fails.
trie_store(h, t, openFail, storeFailAt, writeErr, renameFail) ==
    IF openFail
    THEN [ret |-> -EACCES, tmp |-> "none", final |-> "old", written |-> <<>>]
    ELSE StoreFrom(h, t, trie_store_nodes_size(h, HeaderSize, t.root),
                   storeFailAt, writeErr, renameFail)

-----------------------------------------------------------------------------
(* The build.                                                              *)

Working == [heap |-> heap, strings |-> trie.strings,
            nodes_count |-> trie.nodes_count,
            children_count |-> trie.children_count,
            values_count |-> trie.values_count, allocs |-> 0]

\* what the uninitialised search.key_off of trie_node_add_value() may point
\* at when the pattern is `search`: bytes equal to a key the pattern's node
\* holds, or to none of them
GarbageFor(search) == UNION {KeysAt(node) : node \in NodesSpelling(search)} \cup {NoKey}

\* the keys held by any node, and bytes that equal none
AllGarbage == UNION {KeysAt(node) : node \in 1..Len(heap)} \cup {NoKey}

FailPoints == IF faults < MaxFaults THEN 0..MaxFailAt ELSE {0}

Recorded(h, search, key, value) ==
    [y \in DOMAIN h \cup {<<search, key>>} |->
        IF y = <<search, key>>
        THEN [value |-> value,
              n |-> IF y \in DOMAIN h THEN (IF h[y].n >= 2 THEN 2 ELSE h[y].n + 1) ELSE 1]
        ELSE h[y]]

\* the state after construction in adm_hwdb(): an empty pool and the root
InitTrie ==
    /\ heap = <<NewNode>>
    /\ trie = [root |-> 1, strings |-> <<0>>, nodes_count |-> 1,
               children_count |-> 0, values_count |-> 0]
    /\ charSigned \in BOOLEAN
    /\ hist = <<>>
    /\ ref = [heap |-> <<NewNode>>, strings |-> <<0>>, nodes_count |-> 1,
              children_count |-> 0, values_count |-> 0, allocs |-> 0]
    /\ failed = FALSE
    /\ faults = 0
    /\ tmp = "none"
    /\ final = "old"
    /\ written = <<>>
    /\ ret = "none"
    /\ rc = "EXIT_SUCCESS"
    /\ storeFault = "none"
    /\ match = <<>>
    /\ line = <<>>
    /\ call = <<>>
    /\ rec = [matches |-> {}, values |-> {}, calls |-> {}, ok |-> TRUE]

\* the same trie_insert() call in the reference build
ReferenceInsert(search, key, value) ==
    [trie_insert(ref, 1, search, key, value, charSigned, 0, NoKey).st EXCEPT !.allocs = 0]

\* a trie_insert() call whose result is r
Inserted(r, search, key, value, failAt) ==
    /\ failAt <= r.st.allocs
    /\ heap' = r.st.heap
    /\ trie' = [trie EXCEPT !.strings = r.st.strings,
                            !.nodes_count = r.st.nodes_count,
                            !.children_count = r.st.children_count,
                            !.values_count = r.st.values_count]
    /\ hist' = IF r.err = 0 THEN Recorded(hist, search, key, value) ELSE hist
    /\ ref' = ReferenceInsert(search, key, value)
    /\ failed' = (failed \/ r.err # 0)
    /\ faults' = IF failAt # 0 THEN faults + 1 ELSE faults

Insert(search, key, value, failAt, garbage) ==
    /\ pc = "insert"
    /\ left > 0
    /\ Inserted(trie_insert(Working, trie.root, search, key, value,
                            charSigned, failAt, garbage),
                search, key, value, failAt)
    /\ left' = left - 1
    /\ UNCHANGED <<charSigned, pc>>
    /\ UNCHANGED storeVars
    /\ UNCHANGED parseVars

InsertStep ==
    \E search \in Patterns, kv \in KeyValues :
        \E failAt \in FailPoints, garbage \in GarbageFor(search) :
            Insert(search, kv[1], kv[2], failAt, garbage)

\* adm_hwdb(): the inputs are read, strbuf_complete()
Complete ==
    /\ pc \in {"insert", "import"}
    /\ pc' = "store"
    /\ UNCHANGED <<heap, trie, charSigned, hist, ref, failed, left, faults>>
    /\ UNCHANGED storeVars
    /\ UNCHANGED parseVars

\* the call of trie_store() that is made to fail
FaultOf(openFail, storeFailAt, writeErr, renameFail) ==
    IF openFail THEN "open" ELSE IF storeFailAt # 0 THEN "alloc"
    ELSE IF writeErr THEN "write" ELSE IF renameFail THEN "rename" ELSE "none"

\* trie_store() returned r
Stored(r, made, storeFailAt) ==
    /\ storeFailAt # 0 => storeFailAt <= r.written.allocs
    /\ faults' = faults + made
    /\ tmp' = r.tmp
    /\ final' = r.final
    /\ written' = r.written
    /\ ret' = r.ret
    /\ rc' = IF r.ret < 0 THEN "EXIT_FAILURE" ELSE rc

FaultsMade(openFail, storeFailAt, writeErr, renameFail) ==
    (IF openFail THEN 1 ELSE 0) + (IF storeFailAt # 0 THEN 1 ELSE 0)
        + (IF writeErr THEN 1 ELSE 0) + (IF renameFail THEN 1 ELSE 0)

\* adm_hwdb() from mkdir_parents() on: trie_store() and the exit status
Store(openFail, storeFailAt, writeErr, renameFail) ==
    /\ pc = "store"
    /\ faults + FaultsMade(openFail, storeFailAt, writeErr, renameFail) <= MaxFaults
    /\ openFail => (storeFailAt = 0 /\ ~writeErr /\ ~renameFail)
    /\ writeErr => ~renameFail
    /\ Stored(trie_store(heap, trie, openFail, storeFailAt, writeErr, renameFail),
              FaultsMade(openFail, storeFailAt, writeErr, renameFail), storeFailAt)
    /\ storeFault' = FaultOf(openFail, storeFailAt, writeErr, renameFail)
    /\ pc' = "done"
    /\ UNCHANGED <<heap, trie, charSigned, hist, ref, failed, left>>
    /\ UNCHANGED parseVars

StoreStep ==
    \E openFail, writeErr, renameFail \in BOOLEAN, storeFailAt \in 0..MaxFailAt :
        Store(openFail, storeFailAt, writeErr, renameFail)

\* strchr(): the 1-based index of the first byte c of s from index j on, 0
\* for NULL
RECURSIVE strchr(_, _, _)
strchr(s, c, j) ==
    IF j > Len(s) THEN 0 ELSE IF s[j] = c THEN j ELSE strchr(s, c, j + 1)

\* import_file(), "remove newline": the line without its last byte
Chopped(ln) == SubSeq(ln, 1, Len(ln) - 1)

\* the key argument without the line's first byte
KeyArgStripped(ln, eq) == SubSeq(ln, 2, eq - 1)

\* the key argument of import_file()'s trie_insert() call: `line`, which ends
\* where the '=' at index eq was overwritten by '\0'
KeyArg(ln, eq) == SubSeq(ln, 1, eq - 1)

\* the value argument: the bytes after the '='
ValueArg(ln, eq) == SubSeq(ln, eq + 1, Len(ln))

\* import_file(), "value lines": the call made for the chopped line ln, whose
\* first '=' is at index eq; <<>> when none is made
ValueLine(m, ln, eq) ==
    IF ln[1] # 32 \/ eq = 0 THEN <<>>
    ELSE [search |-> m, key |-> KeyArg(ln, eq), value |-> ValueArg(ln, eq)]

\* the body of import_file()'s while loop for the line ln, match being m:
\* [match, call], the new match and the trie_insert() call made (<<>>: none)
import_line(m, ln) ==
    IF ln[1] = 35 THEN [match |-> m, call |-> <<>>]
    ELSE IF ln[1] = 10 THEN [match |-> <<>>, call |-> <<>>]
    ELSE IF Len(ln) < 2 THEN [match |-> m, call |-> <<>>]
    ELSE IF m = <<>> THEN [match |-> Chopped(ln), call |-> <<>>]
    ELSE [match |-> m, call |-> ValueLine(m, Chopped(ln), strchr(Chopped(ln), 61, 1))]

\* The record as the input format describes it: a comment is no part of it, a
\* blank line ends it, a flush-left line is a match line, a line that begins
\* with a space and holds an '=' is a value line.  ok: the record began with
\* a match line and no match line followed a value line.
Terminated(ln) == ln[Len(ln)] = 10
Content(ln) == IF Terminated(ln) THEN Chopped(ln) ELSE ln
EmptyRecord == [matches |-> {}, values |-> {}, calls |-> {}, ok |-> TRUE]
IsMatchLine(ln) == ln[1] \notin {32, 35, 10}
IsValueLine(ln) == ln[1] = 32 /\ strchr(ln, 61, 1) # 0

RecordWith(r, ln, c) ==
    IF ln[1] = 35 THEN r
    ELSE IF ln = <<10>> THEN EmptyRecord
    ELSE [matches |-> IF IsMatchLine(ln) THEN r.matches \cup {Content(ln)} ELSE r.matches,
          values |-> IF IsValueLine(ln) THEN r.values \cup {ln} ELSE r.values,
          calls |-> IF c = <<>> THEN r.calls ELSE r.calls \cup {<<c.search, ln>>},
          ok |-> r.ok /\ (IF IsMatchLine(ln) THEN r.values = {} ELSE r.matches # {})]

\* adm_hwdb(): conf_files_list_strv()
ListFiles(fail) ==
    /\ pc = "list"
    /\ fail => faults < MaxFaults
    /\ faults' = IF fail THEN faults + 1 ELSE faults
    /\ pc' = IF fail THEN "done" ELSE "import"
    /\ rc' = IF fail THEN "EXIT_FAILURE" ELSE rc
    /\ UNCHANGED <<heap, trie, charSigned, hist, ref, failed, left>>
    /\ UNCHANGED <<tmp, final, written, ret, storeFault>>
    /\ UNCHANGED parseVars

\* import_file() up to the while loop; adm_hwdb() drops its result
OpenFile(fail) ==
    /\ pc = "import"
    /\ files > 0
    /\ fail => faults < MaxFaults
    /\ faults' = IF fail THEN faults + 1 ELSE faults
    /\ files' = files - 1
    /\ pc' = IF fail THEN "import" ELSE "read"
    /\ match' = IF fail THEN match ELSE <<>>
    /\ rec' = EmptyRecord
    /\ UNCHANGED <<heap, trie, charSigned, hist, ref, failed, left, line, call>>
    /\ UNCHANGED storeVars

\* one round of import_file()'s while loop whose body is l = [match, call]; a
\* line without a newline is the file's last, so fclose() follows it.
\* import_file() drops the result of trie_insert().
Imported(ln, l, failAt, garbage) ==
    /\ match' = l.match
    /\ line' = ln
    /\ call' = l.call
    /\ rec' = RecordWith(rec, ln, l.call)
    /\ pc' = IF Terminated(ln) THEN "read" ELSE "import"
    /\ IF l.call = <<>>
       THEN /\ failAt = 0
            /\ garbage = NoKey
            /\ UNCHANGED <<heap, trie, hist, ref, failed, faults>>
       ELSE /\ garbage \in GarbageFor(l.call.search)
            /\ Inserted(trie_insert(Working, trie.root, l.call.search, l.call.key,
                                    l.call.value, charSigned, failAt, garbage),
                        l.call.search, l.call.key, l.call.value, failAt)

ReadLine(ln, failAt, garbage) ==
    /\ pc = "read"
    /\ left > 0
    /\ left' = left - 1
    /\ Imported(ln, import_line(match, ln), failAt, garbage)
    /\ UNCHANGED <<charSigned, files>>
    /\ UNCHANGED storeVars

\* import_file(): fgets() returns NULL, fclose()
EndFile ==
    /\ pc = "read"
    /\ pc' = "import"
    /\ UNCHANGED <<heap, trie, charSigned, hist, ref, failed, left, faults>>
    /\ UNCHANGED storeVars
    /\ UNCHANGED parseVars

ReadStep ==
    \E ln \in Lines, failAt \in FailPoints, garbage \in AllGarbage :
        ReadLine(ln, failAt, garbage)

\* The trie under trie_insert() calls.

Init == InitTrie /\ pc = "insert" /\ left = MaxInserts /\ files = 0

Next == InsertStep

Spec == Init /\ [][Next]_vars

\* The trie under trie_insert() calls whose patterns run through one
\* another, so that nodes with children and values are split.

InitSplit == InitTrie /\ pc = "insert" /\ left = MaxSplitInserts /\ files = 0

SplitStep ==
    \E search \in SplitPatterns, kv \in KeyValues :
        \E failAt \in FailPoints, garbage \in GarbageFor(search) :
            Insert(search, kv[1], kv[2], failAt, garbage)

NextSplit == SplitStep

SpecSplit == InitSplit /\ [][NextSplit]_vars

\* trie_insert() calls followed by trie_store().

InitStore == InitTrie /\ pc = "insert" /\ left = MaxStoreInserts /\ files = 0

NextStore == InsertStep \/ Complete \/ StoreStep

SpecStore == InitStore /\ [][NextStore]_vars

\* A build by adm_hwdb(): the input files are read line by line, then
\* trie_store().

InitBuild == InitTrie /\ pc = "list" /\ left = MaxLines /\ files = MaxFiles

NextBuild ==
    \/ \E fail \in BOOLEAN : ListFiles(fail)
    \/ \E fail \in BOOLEAN : OpenFile(fail)
    \/ ReadStep
    \/ EndFile
    \/ Complete
    \/ StoreStep

SpecBuild == InitBuild /\ [][NextBuild]_vars

-----------------------------------------------------------------------------
(* Claims about the in-memory trie.                                        *)

\* C1: for every (pattern, key) inserted more than once, the node the pattern
\* ends at holds exactly one value entry for the key, and its value is the one
\* of the chronologically last insert.
C1_LastInsertWins ==
    \A x \in DOMAIN hist :
        hist[x].n >= 2 =>
            \E node \in NodesSpelling(x[1]) :
                /\ Cardinality(EntriesFor(node, x[2])) = 1
                /\ \A e \in EntriesFor(node, x[2]) :
                       ValueOf(heap[node].values[e]) = hist[x].value

\* C2: after successful inserts, the nodes that carry values spell exactly the
\* inserted patterns, each pattern at one node only, and each such node's keys
\* are exactly the keys inserted for its pattern.
C2_RoundTrip ==
    ~failed =>
        LET valued == {e \in Spelled : heap[e.node].values_count > 0}
        IN  /\ {e.pattern : e \in valued} = {x[1] : x \in DOMAIN hist}
            /\ \A e1, e2 \in valued : e1.pattern = e2.pattern => e1.node = e2.node
            /\ \A e \in valued :
                   KeysAt(e.node) = {x[2] : x \in {y \in DOMAIN hist : y[1] = e.pattern}}

\* the part of C2 about patterns alone
C2_PatternsRoundTrip ==
    ~failed =>
        LET valued == {e \in Spelled : heap[e.node].values_count > 0}
        IN  /\ {e.pattern : e \in valued} = {x[1] : x \in DOMAIN hist}
            /\ \A e1, e2 \in valued : e1.pattern = e2.pattern => e1.node = e2.node

\* C7: in every node the values are sorted ascending by key string and no two
\* entries of a node have equal key strings.
C7_ValuesSortedUnique ==
    \A node \in 1..Len(heap) :
        \A x, y \in 1..heap[node].values_count :
            x < y => strcmp(KeyOf(heap[node].values[x]), KeyOf(heap[node].values[y])) < 0

\* C8: in every node the children are sorted ascending by discriminator byte
\* and no two children of a node have the same discriminator.
C8_ChildrenSortedUnique ==
    \A node \in 1..Len(heap) :
        /\ Len(heap[node].children) = heap[node].children_count
        /\ \A x, y \in 1..heap[node].children_count :
               x < y => heap[node].children[x].c < heap[node].children[y].c

\* C8's case: a node emptied by a split (only a split leaves a node other than
\* the root without values when no insert failed) has got a second child
C8_Witness ==
    /\ ~failed
    /\ \E node \in 2..Len(heap) :
           heap[node].values_count = 0 /\ heap[node].children_count >= 2

-----------------------------------------------------------------------------
(* Claims about the serializer.                                            *)

\* the nodes of the subtree of `node` in the order trie_store_nodes() writes
\* their records: children first, in array order
RECURSIVE PostOrder(_, _)
RECURSIVE PostOrderChildren(_, _, _)
PostOrderChildren(h, node, x) ==
    IF x > h[node].children_count THEN <<>>
    ELSE PostOrder(h, h[node].children[x].child) \o PostOrderChildren(h, node, x + 1)

PostOrder(h, node) == PostOrderChildren(h, node, 1) \o <<node>>

RecordsOf(file, kind) == SelectSeq(file.recs, LAMBDA r : r.kind = kind)

\* the value entries of all nodes in the order they are written
RECURSIVE ValuesInOrder(_, _)
ValuesInOrder(h, nodes) ==
    IF nodes = <<>> THEN <<>>
    ELSE SubSeq(h[Head(nodes)].values, 1, h[Head(nodes)].values_count)
         \o ValuesInOrder(h, Tail(nodes))

\* the node pass of trie_store() ran to its end
NodesWritten == written # <<>> /\ written.header.nodes_root_off >= 0

\* C6: the strings base of the size pass equals header_size + nodes_len of the
\* write pass, the pool's bytes begin there, and every prefix_off, key_off and
\* value_off written is the in-pool offset plus that file offset.
C6_StringsBase ==
    NodesWritten =>
        LET order == PostOrder(heap, trie.root)
            nodes == RecordsOf(written, "node")
            vals == RecordsOf(written, "value")
            mem == ValuesInOrder(heap, order)
            base == written.strings_pos
        IN  /\ written.strings_off = HeaderSize + written.header.nodes_len
            /\ written.strings_off = base
            /\ Len(nodes) = Len(order)
            /\ \A x \in 1..Len(order) :
                   nodes[x].prefix_off = heap[order[x]].prefix_off + base
            /\ Len(vals) = Len(mem)
            /\ \A x \in 1..Len(mem) :
                   /\ vals[x].key_off = mem[x].key_off + base
                   /\ vals[x].value_off = mem[x].value_off + base

\* C6's case: a trie of several nodes, with children and values, was written
C6_Witness ==
    /\ NodesWritten
    /\ tmp = "renamed"
    /\ Len(RecordsOf(written, "child")) >= 2
    /\ Len(RecordsOf(written, "value")) >= 2

-----------------------------------------------------------------------------
(* Claims about trie_store()'s failures and about the build.               *)

\* C3: when a write or the rename failed in trie_store(), the temporary file
\* is removed and trie_store() returns a negative error.
C3_StoreFailureSurfaced ==
    storeFault \in {"write", "rename"} => (tmp = "removed" /\ ret < 0)

\* C4: once a trie_insert() has failed with a memory error the build aborts:
\* no step after it changes the trie, none writes or replaces the output file,
\* and the build ends reporting failure.
C4_InsertFailureAborts ==
    [][failed => /\ heap' = heap
                 /\ trie' = trie
                 /\ written' = written
                 /\ final' = final
                 /\ (pc' = "done" => rc' = "EXIT_FAILURE")]_vars

\* the index of the first '=' of the line
FirstEq(ln) == SetMin({x \in 1..Len(ln) : ln[x] = 61})

C9_NoEqualsLineIgnored ==
    [][(pc = "read" /\ left' = left - 1 /\ line'[1] = 32 /\ strchr(line', 61, 1) = 0)
           => /\ heap' = heap
              /\ trie' = trie
              /\ match' = match
              /\ rc' = rc
              /\ pc' # "done"]_vars

\* C10: in a record of match lines followed by value lines, trie_insert() is
\* called for every match line with every value line read so far.
C10_CrossProduct ==
    rec.ok => \A m \in rec.matches, v \in rec.values : <<m, v>> \in rec.calls

-----------------------------------------------------------------------------
(* Claims about the layout of the file.                                    *)

SetMax(S) == CHOOSE x \in S : \A y \in S : x >= y

\* the node record the child entry at index k of the file's records belongs
\* to: the last node record before it
ParentRecord(recs, k) ==
    recs[SetMax({j \in 1..(k - 1) : recs[j].kind = "node"})]

\* the child entries of all nodes in the order they are written, each with
\* the node that holds it
RECURSIVE ChildrenInOrder(_, _)
ChildrenInOrder(h, nodes) ==
    IF nodes = <<>> THEN <<>>
    ELSE [x \in 1..h[Head(nodes)].children_count |->
            [parent |-> Head(nodes), c |-> h[Head(nodes)].children[x].c,
             child |-> h[Head(nodes)].children[x].child]]
         \o ChildrenInOrder(h, Tail(nodes))

\* the offset of the record written for the node: its place in the post-order
RecordOffset(file, order, node) ==
    RecordsOf(file, "node")[CHOOSE x \in 1..Len(order) : order[x] = node].off

\* C11: every child_off written is the offset of a node record of the file,
\* smaller than the offset of the record of the node that holds the entry,
\* and within [header_size, header_size + nodes_len); when the node pass ran
\* to its end it is the offset of the record of that very child.
C11_ChildrenBeforeParents ==
    written # <<>> =>
        /\ \A k \in 1..Len(written.recs) :
               written.recs[k].kind = "child" =>
                   /\ \E j \in 1..Len(written.recs) :
                          /\ written.recs[j].kind = "node"
                          /\ written.recs[j].off = written.recs[k].child_off
                   /\ written.recs[k].child_off < ParentRecord(written.recs, k).off
                   /\ written.recs[k].child_off >= HeaderSize
                   /\ written.recs[k].child_off < HeaderSize + written.header.nodes_len
        /\ NodesWritten =>
               LET order == PostOrder(heap, trie.root)
                   mem == ChildrenInOrder(heap, order)
                   ch == RecordsOf(written, "child")
               IN  /\ Len(ch) = Len(mem)
                   /\ \A x \in 1..Len(mem) :
                          /\ ch[x].c = mem[x].c
                          /\ ch[x].child_off = RecordOffset(written, order, mem[x].child)
                          /\ ch[x].child_off < RecordOffset(written, order, mem[x].parent)

\* C11's case: a trie two levels deep was written, so some child entry points
\* at a node that has child entries of its own
C11_Witness ==
    /\ NodesWritten
    /\ \E node \in 1..Len(heap) :
           /\ heap[node].children_count >= 1
           /\ \E x \in 1..heap[node].children_count :
                  heap[heap[node].children[x].child].children_count >= 1

\* the offset addresses a byte of the pool that a NUL terminator follows
InPool(buf, off) ==
    /\ off >= 0
    /\ off < Len(buf)
    /\ \E x \in off..(Len(buf) - 1) : buf[x + 1] = 0

\* the offset written to the file lies in the strings region
InStringsRegion(file, off) ==
    /\ off >= HeaderSize + file.header.nodes_len
    /\ off < file.header.file_size

\* C12: every prefix_off, key_off and value_off held by a node addresses a
\* byte of the pool followed by a NUL terminator, and every such offset
\* written to the file lies in [header_size + nodes_len, file_size).
C12_OffsetsInPool ==
    /\ \A node \in 1..Len(heap) :
           /\ InPool(trie.strings, heap[node].prefix_off)
           /\ \A x \in 1..heap[node].values_count :
                  /\ InPool(trie.strings, heap[node].values[x].key_off)
                  /\ InPool(trie.strings, heap[node].values[x].value_off)
    /\ NodesWritten =>
           \A k \in 1..Len(written.recs) :
               /\ written.recs[k].kind = "node" =>
                      InStringsRegion(written, written.recs[k].prefix_off)
               /\ written.recs[k].kind = "value" =>
                      /\ InStringsRegion(written, written.recs[k].key_off)
                      /\ InStringsRegion(written, written.recs[k].value_off)

\* C13: a build without trie_insert() calls writes one node record, the
\* root's, with no children and no values, whose prefix_off addresses the
\* empty string at the start of the strings region; nodes_len is node_size
\* and nodes_root_off is header_size; with no failure that file becomes the
\* final one.
C13_EmptyBuild ==
    (left = MaxStoreInserts /\ written # <<>>) =>
        /\ Len(written.recs) = 1
        /\ written.recs[1].kind = "node"
        /\ written.recs[1].off = HeaderSize
        /\ written.recs[1].children_count = 0
        /\ written.recs[1].values_count = 0
        /\ written.recs[1].prefix_off = written.strings_pos
        /\ written.strings_pos = HeaderSize + written.header.nodes_len
        /\ written.strings[1] = 0
        /\ written.header.nodes_len = NodeSize
        /\ written.header.nodes_root_off = HeaderSize
        /\ written.header.file_size = HeaderSize + NodeSize + Len(written.strings)
        /\ storeFault = "none" => (ret = 0 /\ final = written)

\* C13's case: the build made no insert and its file was renamed over the
\* final path
C13_Witness ==
    /\ left = MaxStoreInserts
    /\ pc = "done"
    /\ tmp = "renamed"
    /\ final = written

\* C14: the header of every file trie_store() wrote without a write error
\* has file_size = header_size + nodes_len + strings_len, nodes_len and
\* strings_len being the sizes of the records and of the pool written.
C14_FileSize ==
    (written # <<>> /\ storeFault # "write") =>
        /\ written.header.file_size =
               written.header.header_size + written.header.nodes_len
                   + written.header.strings_len
        /\ written.header.nodes_len =
               Len(RecordsOf(written, "node")) * NodeSize
                   + Len(RecordsOf(written, "child")) * ChildEntrySize
                   + Len(RecordsOf(written, "value")) * ValueEntrySize
        /\ written.header.strings_len = Len(written.strings)

\* C14's case: a file with node, child and value records was written
C14_Witness ==
    /\ written # <<>>
    /\ storeFault = "none"
    /\ Len(RecordsOf(written, "node")) >= 2
    /\ Len(RecordsOf(written, "child")) >= 1
    /\ Len(RecordsOf(written, "value")) >= 1

\* the bytes of a file: its header, records and pool
Bytes(file) == [header |-> file.header, recs |-> file.recs, strings |-> file.strings]

\* C15: the file a build writes is determined by its sequence of
\* trie_insert() calls: a build in which no allocation and no system call
\* failed writes the bytes the reference build of the same calls writes.
C15_Deterministic ==
    (pc = "done" /\ faults = 0) =>
        Bytes(written) =
            Bytes(trie_store(ref.heap,
                             [root |-> 1, strings |-> ref.strings,
                              nodes_count |-> ref.nodes_count,
                              children_count |-> ref.children_count,
                              values_count |-> ref.values_count],
                             FALSE, 0, FALSE, FALSE).written)

\* C16: when the node pass failed, trie_store() returns a negative error,
\* the temporary file is removed and the final path is not replaced.
C16_NodePassFailureSurfaced ==
    (written # <<>> /\ written.header.nodes_root_off < 0) =>
        /\ ret < 0
        /\ tmp = "removed"
        /\ final = "old"

-----------------------------------------------------------------------------
(* Claims about splits and about failed inserts.                           *)

\* the split of `node`, whose prefix is P, at position p leaves it with the
\* prefix P[0..p), no values and one child, keyed by P[p], which has the
\* prefix P[p+1..] and the node's former children and values, in their order;
\* r is what the split returns when no allocation fails
SplitDone(node, P, p, r) ==
    /\ r.err = 0
    /\ Len(r.st.heap) = Len(heap) + 1
    /\ \A other \in 1..Len(heap) : other # node => r.st.heap[other] = heap[other]
    /\ StrAt(r.st.strings, r.st.heap[node].prefix_off) = SubSeq(P, 1, p)
    /\ r.st.heap[node].values_count = 0
    /\ r.st.heap[node].children_count = 1
    /\ Len(r.st.heap[node].children) = 1
    /\ r.st.heap[node].children[1].c = P[p + 1]
    /\ r.st.heap[node].children[1].child = Len(heap) + 1
    /\ StrAt(r.st.strings, r.st.heap[Len(heap) + 1].prefix_off) = SubSeq(P, p + 2, Len(P))
    /\ r.st.heap[Len(heap) + 1].children = heap[node].children
    /\ r.st.heap[Len(heap) + 1].children_count = heap[node].children_count
    /\ r.st.heap[Len(heap) + 1].values = heap[node].values
    /\ r.st.heap[Len(heap) + 1].values_count = heap[node].values_count
    /\ SubSeq(r.st.strings, 1, Len(trie.strings)) = trie.strings

\* C17: for every node of a trie the inserts built and every position p of
\* its prefix P, the split of the node at p leaves what SplitDone says.
C17_SplitPostcondition ==
    \A node \in 1..Len(heap) :
        \A p \in 0..(Len(StrAt(trie.strings, heap[node].prefix_off)) - 1) :
            SplitDone(node, StrAt(trie.strings, heap[node].prefix_off), p,
                      SplitNode(Working, node,
                                StrAt(trie.strings, heap[node].prefix_off), p, 0))

\* C17's case: an insert has split a node that had children and values; they
\* are now with the child the split made
C17_Witness ==
    /\ faults = 0
    /\ \E node \in 2..Len(heap) :
           /\ heap[node].values_count = 0
           /\ \E x \in 1..heap[node].children_count :
                  /\ heap[heap[node].children[x].child].prefix_off # 0
                  /\ StrAt(trie.strings, heap[heap[node].children[x].child].prefix_off) = <<>>
                  /\ heap[heap[node].children[x].child].children_count >= 1
                  /\ heap[heap[node].children[x].child].values_count >= 1

PlainBytes ==
    ~charSigned \/ \A x \in DOMAIN hist : \A j \in 1..Len(x[1]) : x[1][j] < 128

FoundIn(h, buf, pattern, key, value) ==
    \E e \in Walk(h, buf, 1, <<>>) :
        /\ e.pattern = pattern
        /\ \E x \in 1..h[e.node].values_count :
               /\ StrAt(buf, h[e.node].values[x].key_off) = key
               /\ StrAt(buf, h[e.node].values[x].value_off) = value

ChildrenSortedIn(h) ==
    \A node \in 1..Len(h) :
        \A x, y \in 1..h[node].children_count :
            x < y => h[node].children[x].c < h[node].children[y].c

ValuesSortedIn(h, buf) ==
    \A node \in 1..Len(h) :
        \A x, y \in 1..h[node].values_count :
            x < y => strcmp(StrAt(buf, h[node].values[x].key_off),
                            StrAt(buf, h[node].values[y].key_off)) < 0

\* C19: a trie_insert() that returns an error leaves the trie consistent: the
\* children are sorted and unique, the values are if they were, and every
\* (pattern, key, value) found before the call is found after it.
C19_FailedInsertKeepsEntries ==
    [][(~failed /\ failed') =>
           /\ ChildrenSortedIn(heap')
           /\ ValuesSortedIn(heap, trie.strings) => ValuesSortedIn(heap', trie'.strings)
           /\ \A e \in Spelled :
                  \A x \in 1..heap[e.node].values_count :
                      FoundIn(heap', trie'.strings, e.pattern,
                              KeyOf(heap[e.node].values[x]),
                              ValueOf(heap[e.node].values[x]))]_vars

\* C20: a trie_insert(pattern, key, value) in a build without failed
\* allocations leaves every other (pattern', key') with the value it had: what
\* was found under it before the call is found under it after the call.
C20_OtherEntriesKept ==
    [][(pc = "read" /\ left' = left - 1 /\ call' # <<>> /\ faults' = 0) =>
           \A e \in Spelled :
               \A x \in 1..heap[e.node].values_count :
                   (e.pattern # call'.search \/ KeyOf(heap[e.node].values[x]) # call'.key)
                       => FoundIn(heap', trie'.strings, e.pattern,
                                  KeyOf(heap[e.node].values[x]),
                                  ValueOf(heap[e.node].values[x]))]_vars

====
